---------------------------- MODULE Spec2Model ----------------------------
(***************************************************************************)
(* gh-issue-jira-sync: the sync state machine of scripts/sync.js.          *)
(*                                                                         *)
(* The world is the two external trackers: the GitHub issues with their    *)
(* labels and state, the repository's label set, the comments, and the     *)
(* tickets of the Jira project.  A process is one run of main(); every     *)
(* action is one external call (an await of sync.js) together with the     *)
(* local code that runs up to the next external call.                      *)
(*                                                                         *)
(* Strings that the code takes apart (label names, Jira keys) are          *)
(* sequences of one-character strings, so that the regular expression of   *)
(* getJiraKeyFromLabels and the slice(5) are computed, not assumed.        *)
(***************************************************************************)
EXTENDS Integers, Sequences, FiniteSets, TLC

\* ------------------------------------------------------------------ bounds

\* Number of GitHub issues (and pull requests) of the repository.
NumIssues == 2

\* Page size of the listing; stands for per_page: 100 of bulkSync.
PerPage == 1

\* Cap on the tickets of the Jira project: JiraCreateOk is disabled beyond it.
MaxTickets == 2

Issues == 1..NumIssues

\* ----------------------------------------------------------------- strings

Upper ==
    {"A","B","C","D","E","F","G","H","I","J","K","L","M",
     "N","O","P","Q","R","S","T","U","V","W","X","Y","Z"}

Digit == {"0","1","2","3","4","5","6","7","8","9"}

\* null of getJiraKeyFromLabels and of an unset jiraKey.  A key cut from a
\* matching label name is never empty, so the empty sequence is free.
Null == <<>>

DigitChar(d) ==
    CASE d = 0 -> "0" [] d = 1 -> "1" [] d = 2 -> "2" [] d = 3 -> "3"
      [] d = 4 -> "4" [] d = 5 -> "5" [] d = 6 -> "6" [] d = 7 -> "7"
      [] d = 8 -> "8" [] d = 9 -> "9"

RECURSIVE Decimal(_)
\* The decimal numeral of a ticket number.
Decimal(n) ==
    IF n < 10 THEN <<DigitChar(n)>>
    ELSE Decimal(n \div 10) \o <<DigitChar(n % 10)>>

\* ENV.JIRA_PROJECT_KEY.
ProjectKey == <<"A","B">>

\* The key the Jira create call returns for the n-th ticket of the project.
JiraKey(n) == ProjectKey \o <<"-">> \o Decimal(n)

\* A placeholder that ends in a number, as the keys of Jira do.
DryKeyNumbered(project) == project \o <<"-","0">>

\* `${ENV.JIRA_PROJECT_KEY}-DRY`
DryKeyFor(project) == project \o <<"-","D","R","Y">>

\* The placeholder key of createJiraIssue in dry-run mode.
DryKey == DryKeyFor(ProjectKey)

JiraPrefix == <<"j","i","r","a",":">>

\* `jira:${jiraKey}` of applyJiraLabel.
JiraLabelName(key) == JiraPrefix \o key

BugLabel == <<"b","u","g">>

\* Position of the first "-" of s, 0 when there is none.
FirstDash(s) ==
    IF \E i \in 1..Len(s) : s[i] = "-"
    THEN CHOOSE i \in 1..Len(s) : s[i] = "-" /\ \A j \in 1..(i-1) : s[j] # "-"
    ELSE 0

\* The pattern with a project key of letters only: /^[A-Z][A-Z]+-\d+$/.
MatchesKeyLetters(s) ==
    LET d == FirstDash(s) IN
    /\ d >= 3
    /\ \A i \in 1..(d-1) : s[i] \in Upper
    /\ d < Len(s)
    /\ \A i \in (d+1)..Len(s) : s[i] \in Digit

\* /^[A-Z][A-Z0-9]+-\d+$/ on the text after the prefix.  The class
\* [A-Z0-9] holds no "-", so the "-" of a match is the first one.
MatchesKey(s) ==
    LET d == FirstDash(s) IN
    /\ d >= 3
    /\ s[1] \in Upper
    /\ \A i \in 2..(d-1) : s[i] \in Upper \cup Digit
    /\ d < Len(s)
    /\ \A i \in (d+1)..Len(s) : s[i] \in Digit

\* /^jira:[A-Z][A-Z0-9]+-\d+$/.test(name)
IsSyncLabelName(name) ==
    /\ Len(name) > Len(JiraPrefix)
    /\ SubSeq(name, 1, Len(JiraPrefix)) = JiraPrefix
    /\ MatchesKey(SubSeq(name, Len(JiraPrefix) + 1, Len(name)))

\* getJiraKeyFromLabels with every label taken for a sync label: what the
\* code would do without its test of the label name.
getJiraKeyFromLabelsNoTest(labels) ==
    IF Len(labels) > 0 THEN SubSeq(labels[1], 6, Len(labels[1])) ELSE Null

\* getJiraKeyFromLabels never finding a label.
getJiraKeyFromLabelsBlind(labels) == Null

getJiraKeyFromLabels(labels) ==
    IF \E i \in 1..Len(labels) : IsSyncLabelName(labels[i])
    THEN LET i == CHOOSE i \in 1..Len(labels) :
                     /\ IsSyncLabelName(labels[i])
                     /\ \A j \in 1..(i-1) : ~IsSyncLabelName(labels[j])
         IN SubSeq(labels[i], 6, Len(labels[i]))
    ELSE Null

\* addLabels that answers without attaching the label.
AddLabelDropped(labels, name) == labels

\* octokit.issues.addLabels: a label the issue already carries is not added
\* a second time.
AddLabel(labels, name) ==
    IF \E i \in 1..Len(labels) : labels[i] = name THEN labels
    ELSE Append(labels, name)

\* ------------------------------------------------- the Jira fields of an issue

\* Label names, as the character sequences the functions below look up.
PriorityCritical == <<"p","r","i","o","r","i","t","y",":","c","r","i","t","i","c","a","l">>

PriorityHigh == <<"p","r","i","o","r","i","t","y",":","h","i","g","h">>

PriorityMedium == <<"p","r","i","o","r","i","t","y",":","m","e","d","i","u","m">>

PriorityLow == <<"p","r","i","o","r","i","t","y",":","l","o","w">>

SecurityLabel == <<"s","e","c","u","r","i","t","y">>

TechDebtLabel == <<"t","e","c","h","-","d","e","b","t">>

EnhancementLabel == <<"e","n","h","a","n","c","e","m","e","n","t">>

FeatureLabel == <<"f","e","a","t","u","r","e">>

ConstructorName == <<"c","o","n","s","t","r","u","c","t","o","r">>

ToStringName == <<"t","o","S","t","r","i","n","g">>

ValueOfName == <<"v","a","l","u","e","O","f">>

\* undefined, the value of a property an object does not have.
Undefined == "undefined"

PRIORITY_MAP ==
    (PriorityCritical :> "Highest") @@ (PriorityHigh :> "High")
      @@ (PriorityMedium :> "Medium") @@ (PriorityLow :> "Low")

TYPE_MAP ==
    (SecurityLabel :> "Bug") @@ (BugLabel :> "Bug") @@ (TechDebtLabel :> "Task")
      @@ (EnhancementLabel :> "Story") @@ (FeatureLabel :> "Story")

\* Members every object literal inherits from Object.prototype (these three
\* among others); each is a function, a truthy value.
ObjectPrototype ==
    (ConstructorName :> "function Object")
      @@ (ToStringName :> "function toString")
      @@ (ValueOfName :> "function valueOf")

\* obj[name] on an object literal: an own property, else an inherited one,
\* else undefined.
Property(obj, name) ==
    IF name \in DOMAIN obj THEN obj[name]
    ELSE IF name \in DOMAIN ObjectPrototype THEN ObjectPrototype[name]
         ELSE Undefined

\* The value of the first label of the list for which obj[l.name] is truthy,
\* else the default: the loop of derivePriority and of deriveIssueType.
FirstMapped(obj, labels, default) ==
    IF \E i \in 1..Len(labels) : Property(obj, labels[i]) # Undefined
    THEN LET i == CHOOSE i \in 1..Len(labels) :
                     /\ Property(obj, labels[i]) # Undefined
                     /\ \A j \in 1..(i-1) : Property(obj, labels[j]) = Undefined
         IN Property(obj, labels[i])
    ELSE default

derivePriority(labels) == FirstMapped(PRIORITY_MAP, labels, "Medium")

\* typeDefault is ENV.JIRA_ISSUE_TYPE_DEFAULT.
deriveIssueType(labels, typeDefault) == FirstMapped(TYPE_MAP, labels, typeDefault)

Min(a, b) == IF a < b THEN a ELSE b

\* The clamp of the summary; stands for the 255 of substring(0, 255).
SummaryMax == 3

\* \s of the regular expressions and the white space of trim(), for the
\* characters titles and table cells are made of here.
IsSpace(c) == c = " "

\* title.replace(/^\[[^\]]*\]\s*/g, ''): the pattern is anchored at the
\* start of the title, so it matches at most once: a "[", the text up to the
\* first "]", and the white space that follows.
StripPrefix(title) ==
    IF /\ Len(title) > 0
       /\ title[1] = "["
       /\ \E j \in 2..Len(title) : title[j] = "]"
    THEN LET close == CHOOSE j \in 2..Len(title) :
                         /\ title[j] = "]"
                         /\ \A k \in 2..(j-1) : title[k] # "]"
             after == {k \in (close + 1)..Len(title) : ~IsSpace(title[k])}
             start == IF after = {} THEN Len(title) + 1
                      ELSE CHOOSE k \in after : \A l \in after : k <= l
         IN SubSeq(title, start, Len(title))
    ELSE title

\* String.prototype.trim
Trim(s) ==
    LET solid == {k \in 1..Len(s) : ~IsSpace(s[k])}
    IN IF solid = {} THEN <<>>
       ELSE SubSeq(s, CHOOSE k \in solid : \A l \in solid : k <= l,
                      CHOOSE k \in solid : \A l \in solid : k >= l)

\* substring(0, n)
Substring0(s, n) == SubSeq(s, 1, Min(n, Len(s)))

\* Summary without substring(0, 255).
SummaryUnclamped(title) == Trim(StripPrefix(title))

\* The summary field of createJiraIssue.
Summary(title) == Substring0(Trim(StripPrefix(title)), SummaryMax)

\* null, and a string value, of a field of parseBody's result.
JsNull == [null |-> TRUE, text |-> <<>>]

JsString(s) == [null |-> FALSE, text |-> s]

\* A value is truthy: neither null nor the empty string.
Truthy(v) == ~v.null /\ v.text # <<>>

\* The fields of the metadata table, in the order of metaRows.
MetaFields == <<"File", "Line", "Branch", "Commit", "Introduced", "Author">>

MetaNames == {MetaFields[i] : i \in 1..Len(MetaFields)}

\* An issue body.  kind is "undefined", "null" or "string".  Of a string,
\* cells[f] is the text the pattern of field(f) captures in the first table
\* row named f, todo the text captured after the quote mark under
\* `## TODO Comment`, code the fenced block under `## Code Context` with the
\* language tag of its fence ("" when the fence has none); each with present
\* FALSE when the body has no such row, section or block.
NoCell == [present |-> FALSE, text |-> <<>>]

Cell(s) == [present |-> TRUE, text |-> s]

NoCode == [present |-> FALSE, tag |-> "", text |-> <<>>]

NoTable == [f \in MetaNames |-> NoCell]

UndefinedBody == [kind |-> "undefined", cells |-> NoTable, todo |-> NoCell, code |-> NoCode]

NullBody == [kind |-> "null", cells |-> NoTable, todo |-> NoCell, code |-> NoCode]

\* parseBody(body = '') throws: the default stands in for undefined only, so
\* on null `body.match` is a TypeError.
parseBodyThrows(body) == body.kind = "null"

\* m ? m[1].trim() : null
Captured(cell) == IF cell.present THEN JsString(Trim(cell.text)) ELSE JsNull

\* parseBody on a body it does not throw on.
parseBody(body) ==
    [todoText |-> Captured(body.todo),
     codeBlock |-> body.code,
     fields |-> [f \in MetaNames |-> Captured(body.cells[f])]]

\* adfTableRow([k, v]) and adfTableRow(['Field', 'Value'], true)
adfTableRow(k, v, header) == [header |-> header, key |-> k, value |-> v]

ValueHeader == <<"V","a","l","u","e">>

\* metaRows with every field given a row: the `meta.x &&` tests left out.
metaRowsUnfiltered(meta, ghUrl) ==
    [i \in 1..Len(MetaFields) |->
        adfTableRow(MetaFields[i], meta.fields[MetaFields[i]].text, FALSE)]
      \o <<adfTableRow("GitHub Issue", ghUrl, FALSE)>>

\* metaRows of buildDescription, each already an adfTableRow.
metaRows(meta, ghUrl) ==
    LET kept == SelectSeq(MetaFields, LAMBDA f : Truthy(meta.fields[f]))
    IN [i \in 1..Len(kept) |->
           adfTableRow(kept[i], meta.fields[kept[i]].text, FALSE)]
         \o <<adfTableRow("GitHub Issue", ghUrl, FALSE)>>

Provenance == "Auto-migrated from GitHub Issues by gh-issue-jira-sync."

\* A node of the document: label is fixed text, text is text of the issue.
Node(type, label, text, rows) ==
    [type |-> type, label |-> label, text |-> text, rows |-> rows]

\* buildDescription(issue, meta): the content of the ADF document.
buildDescription(issue, meta) ==
    LET todoText == IF Truthy(meta.todoText) THEN meta.todoText.text
                    ELSE issue.title
        content ==
          <<Node("paragraph", Provenance, <<>>, <<>>),
            Node("blockquote", "", todoText, <<>>),
            Node("heading", "Details", <<>>, <<>>),
            Node("table", "",  <<>>,
                 <<adfTableRow("Field", ValueHeader, TRUE)>>
                   \o metaRows(meta, issue.html_url))>>
    IN IF meta.codeBlock.present
       THEN content
              \o <<Node("heading", "Code Context", <<>>, <<>>),
                   Node("codeBlock",
                        IF meta.codeBlock.tag # "" THEN meta.codeBlock.tag
                        ELSE "text",
                        meta.codeBlock.text, <<>>)>>
       ELSE content

\* createJiraIssue up to its DRY_RUN test: the payload, or threw when
\* parseBody throws.  typeDefault is ENV.JIRA_ISSUE_TYPE_DEFAULT.
createJiraIssue(issue, typeDefault) ==
    IF parseBodyThrows(issue.body)
    THEN [threw |-> TRUE]
    ELSE [threw |-> FALSE,
          project |-> ProjectKey,
          summary |-> Summary(issue.title),
          description |-> buildDescription(issue, parseBody(issue.body)),
          issuetype |-> deriveIssueType(issue.labels, typeDefault),
          priority |-> derivePriority(issue.labels),
          labels |-> <<"auto-migrated", "gh-issue-jira-sync">>]

\* ------------------------------------------------ inputs of the functions

\* Longest label list, and longest title, handed to the functions.
MaxLabels == 2

MaxTitle == 5

\* Sync labels, each with the key it stands for.
SyncPool ==
    {[name |-> <<"j","i","r","a",":","A","B","-","1">>, key |-> <<"A","B","-","1">>],
     [name |-> <<"j","i","r","a",":","A","B","-","2">>, key |-> <<"A","B","-","2">>],
     [name |-> <<"j","i","r","a",":","A","1","B","-","1","0">>, key |-> <<"A","1","B","-","1","0">>]}

\* Names close to a sync label that are none: lower case, no number, text
\* before the marker, text after the number, a project key of one letter, a
\* project key that starts with a digit.
NearPool ==
    {<<"j","i","r","a",":","a","b","-","1">>,
     <<"j","i","r","a",":","A","B","-">>,
     <<"x","j","i","r","a",":","A","B","-","1">>,
     <<"j","i","r","a",":","A","B","-","1","x">>,
     <<"j","i","r","a",":","A","-","1">>,
     <<"j","i","r","a",":","1","A","-","1">>}

\* Other names: keys of the two tables, a key in another case, a member of
\* Object.prototype, and a name that is nothing of all that.
OtherPool ==
    {PriorityCritical, PriorityLow, BugLabel, EnhancementLabel,
     <<"B","u","g">>, ConstructorName, <<"d","o","c","s">>}

LabelPool == {s.name : s \in SyncPool} \cup NearPool \cup OtherPool

LabelLists == UNION {[1..k -> LabelPool] : k \in 0..MaxLabels}

\* The label lists of an issue that was never synced: no name matches the
\* pattern.
UnsyncedLabelLists ==
    {l \in LabelLists : \A i \in 1..Len(l) : l[i] \in NearPool \cup {BugLabel}}

MaxProjectKey == 3

\* Project keys of Jira Cloud: an upper-case letter followed by one or more
\* upper-case letters or digits.
CloudProjectKeys ==
    {k \in UNION {[1..n -> {"A", "Z", "0", "9"}] : n \in 2..MaxProjectKey} :
        k[1] \in Upper}

\* result.key of POST /issue: the key of the project, "-", and the number of
\* the ticket in decimal.
ReturnedKeys ==
    {k \o <<"-">> \o Decimal(n) : k \in CloudProjectKeys, n \in {1, 10, 209}}

\* Values of JIRA_PROJECT_KEY that pass the validation loop, which only
\* rejects the empty string: project keys of Jira, and strings that are none
\* (lower case, a digit first, one character, a dash inside).
ConfiguredKeys ==
    UNION {[1..n -> {"A", "1", "a", "-"}] : n \in 1..MaxProjectKey}

TitleChars == {"[", "]", " ", "a"}

Titles == UNION {[1..k -> TitleChars] : k \in 0..MaxTitle}

CellValues == {NoCell, Cell(<<" ">>), Cell(<<"v">>)}

CodeValues ==
    {NoCode, [present |-> TRUE, tag |-> "js", text |-> <<"x">>],
     [present |-> TRUE, tag |-> "", text |-> <<"x">>]}

\* The bodies: undefined, null, and the strings, from the empty string and
\* free text (nothing present) to a full table.
Bodies ==
    {UndefinedBody, NullBody}
      \cup {[kind |-> "string", cells |-> c, todo |-> t, code |-> k] :
               c \in [MetaNames -> CellValues], t \in CellValues,
               k \in CodeValues}

HtmlUrl == <<"u","r","l">>

BaseIssue ==
    [title |-> <<"a">>,
     body |-> [kind |-> "string", cells |-> NoTable, todo |-> NoCell,
               code |-> NoCode],
     labels |-> <<BugLabel>>, html_url |-> HtmlUrl]

GivenIssues ==
    {[BaseIssue EXCEPT !.labels = l] : l \in LabelLists}
      \cup {[BaseIssue EXCEPT !.title = t] : t \in Titles}
      \cup {[BaseIssue EXCEPT !.body = b] : b \in Bodies}

NoRet == [fn |-> "none"]

\* No issue is handed to the functions.
NoGiven == [issue |-> <<>>, typeDefault |-> ""]

\* ------------------------------------------------------------------- state

VARIABLES
    issues,      \* GitHub: issue number -> [state, labels, pr]
    repoLabels,  \* GitHub: the names of the labels defined in the repository
    comments,    \* GitHub: issue number -> number of comments posted
    tickets,     \* Jira: tickets[i] is the GitHub issue ticket i was created for
    proc,        \* process slot -> the locals of the run of main() in it
    given,       \* a fetched issue and the default issue type, as handed to
                 \* the functions that derive the Jira fields
    ret          \* what the function applied last to `given` returned

vars == <<issues, repoLabels, comments, tickets, proc, given, ret>>

world == <<issues, repoLabels, comments, tickets>>

\* The process slots.  Sequential runs reuse the slot "a"; the slot "b" is
\* for a second workflow run that overlaps the first.
Procs == {"a", "b"}

\* One invocation of syncIssue: its result, and the external calls it made.
NoInv ==
    [issue |-> 0, fetched |-> FALSE, outcome |-> "none", reason |-> "",
     key |-> Null, failedAt |-> "", calls |-> <<>>]

NewInv(n) == [NoInv EXCEPT !.issue = n, !.outcome = "running"]

\* The locals of a process.  inv is the invocation of syncIssue in progress,
\* last the one that ended last; eligible and visited are the history of a
\* bulk run: the issues that were open, not pull requests and without a sync
\* label when it started, and the issues it passed to syncIssue so far.
\* unset is the set of variables the environment of the run lacks, err the
\* variable named by the error that ended the process at startup.
Fresh ==
    [pc |-> "idle", mode |-> "none", dry |-> FALSE, close |-> FALSE,
     sink |-> FALSE, cur |-> 0, key |-> Null, page |-> 0, items |-> <<>>,
     idx |-> 0, summary |-> [synced |-> 0, skipped |-> 0, failed |-> 0],
     inv |-> NoInv, last |-> NoInv, exit |-> 0, out |-> <<>>,
     eligible |-> {}, visited |-> <<>>, unset |-> {}, err |-> ""]

\* ----------------------------------------------------------- initial state

\* What an issue of the repository looks like before the first run.
Kinds == {"open", "synced", "closed", "pr"}

\* Issues synced by an earlier run carry the tickets 1, 2, ... in the order
\* of their numbers.
TicketOf(kinds, n) == Cardinality({m \in 1..n : kinds[m] = "synced"})

InitIssue(kinds, n) ==
    CASE kinds[n] = "open" ->
           [state |-> "open", labels |-> <<BugLabel>>, pr |-> FALSE,
            body |-> BaseIssue.body]
      [] kinds[n] = "synced" ->
           [state |-> "open",
            labels |-> <<BugLabel, JiraLabelName(JiraKey(TicketOf(kinds, n)))>>,
            pr |-> FALSE, body |-> BaseIssue.body]
      [] kinds[n] = "closed" ->
           [state |-> "closed", labels |-> <<BugLabel>>, pr |-> FALSE,
            body |-> BaseIssue.body]
      [] kinds[n] = "pr" ->
           [state |-> "open", labels |-> <<>>, pr |-> TRUE,
            body |-> BaseIssue.body]

InitTickets(kinds) ==
    SelectSeq([n \in Issues |-> n], LAMBDA n : kinds[n] = "synced")

Init ==
    \E kinds \in [Issues -> Kinds], extra \in BOOLEAN :
       /\ issues = [n \in Issues |-> InitIssue(kinds, n)]
       /\ tickets = InitTickets(kinds)
       /\ repoLabels =
            {BugLabel}
            \cup {JiraLabelName(JiraKey(TicketOf(kinds, n))) :
                     n \in {m \in Issues : kinds[m] = "synced"}}
            \cup (IF extra
                  THEN {JiraLabelName(JiraKey(Len(InitTickets(kinds)) + 1))}
                  ELSE {})
       /\ comments = [n \in Issues |-> 0]
       /\ proc = [p \in Procs |-> Fresh]
       /\ given = NoGiven
       /\ ret = NoRet

\* ------------------------------------------------------- local control flow

\* octokit.issues.listForRepo({state: 'open', per_page, page}): the open
\* issues and pull requests, newest first (the default sort of the API).
OpenList ==
    LET desc == [i \in 1..NumIssues |-> NumIssues + 1 - i]
    IN SelectSeq(desc, LAMBDA n : issues[n].state = "open")

ListPage(page) ==
    SubSeq(OpenList, (page - 1) * PerPage + 1, Min(page * PerPage, Len(OpenList)))

Log(st, op, ok) ==
    [st EXCEPT !.inv.calls = Append(@, [op |-> op, ok |-> ok])]

\* syncIssue(n) is called: the invocation starts with the issue fetch.
Begin(st, n) ==
    [st EXCEPT !.pc = "get", !.cur = n, !.key = Null, !.inv = NewInv(n),
               !.visited = Append(@, n)]

\* The process ends: its locals are gone, its exit code, its output file and
\* what it logged last (the result, the bulk summary) remain to be seen.
Exit(st, code) ==
    [Fresh EXCEPT !.summary = st.summary, !.last = st.last, !.out = st.out,
                  !.exit = code]

\* BulkEnd without `if (s.failed > 0) process.exit(1)`.
BulkEndExitZero(st) == Exit(st, 0)

\* The end of bulkSync and of main() after it: process.exit(1) if s.failed > 0.
BulkEnd(st) == Exit(st, IF st.summary.failed > 0 THEN 1 ELSE 0)

\* Advance without `if (issue.pull_request) continue`.
AdvanceWithPullRequests(st) ==
    IF st.idx < Len(st.items)
    THEN Begin([st EXCEPT !.idx = @ + 1], st.items[st.idx + 1])
    ELSE IF Len(st.items) < PerPage
         THEN BulkEnd(st)
         ELSE [st EXCEPT !.pc = "list", !.page = @ + 1, !.items = <<>>,
                         !.idx = 0, !.cur = 0, !.key = Null]

\* Advance without the `page++` of the outer loop: the same page is listed
\* again.
AdvanceSamePage(st) ==
    LET rest == {j \in (st.idx + 1)..Len(st.items) : ~issues[st.items[j]].pr}
    IN IF rest # {}
       THEN LET j == CHOOSE j \in rest : \A k \in rest : j <= k
            IN Begin([st EXCEPT !.idx = j], st.items[j])
       ELSE IF Len(st.items) < PerPage
            THEN BulkEnd(st)
            ELSE [st EXCEPT !.pc = "list", !.items = <<>>,
                            !.idx = 0, !.cur = 0, !.key = Null]

\* The for loop of bulkSync from the item after st.idx: pull requests are
\* passed over; after the last item the next page is listed, unless this
\* page was short.
Advance(st) ==
    LET rest == {j \in (st.idx + 1)..Len(st.items) : ~issues[st.items[j]].pr}
    IN IF rest # {}
       THEN LET j == CHOOSE j \in rest : \A k \in rest : j <= k
            IN Begin([st EXCEPT !.idx = j], st.items[j])
       ELSE IF Len(st.items) < PerPage
            THEN BulkEnd(st)
            ELSE [st EXCEPT !.pc = "list", !.page = @ + 1, !.items = <<>>,
                            !.idx = 0, !.cur = 0, !.key = Null]

\* Return with every result counted as synced by the bulk loop.
ReturnAllSynced(st, status, reason, key) ==
    LET s1 == [st EXCEPT !.inv = NoInv,
                         !.last = [st.inv EXCEPT !.outcome = status,
                                                 !.reason = reason,
                                                 !.key = key]]
    IN IF st.mode = "single"
       THEN Exit(s1, 0)
       ELSE IF status = "synced"
            THEN [s1 EXCEPT !.summary.synced = @ + 1, !.pc = "delay"]
            ELSE Advance([s1 EXCEPT !.summary.synced = @ + 1])

\* Return without the setTimeout after a synced issue.
ReturnNoDelay(st, status, reason, key) ==
    LET s1 == [st EXCEPT !.inv = NoInv,
                         !.last = [st.inv EXCEPT !.outcome = status,
                                                 !.reason = reason,
                                                 !.key = key]]
    IN IF st.mode = "single"
       THEN Exit(s1, 0)
       ELSE IF status = "synced"
            THEN Advance([s1 EXCEPT !.summary.synced = @ + 1])
            ELSE Advance([s1 EXCEPT !.summary.skipped = @ + 1])

\* syncIssue returns a result.
Return(st, status, reason, key) ==
    LET s1 == [st EXCEPT !.inv = NoInv,
                         !.last = [st.inv EXCEPT !.outcome = status,
                                                 !.reason = reason,
                                                 !.key = key]]
    IN IF st.mode = "single"
       THEN Exit(s1, 0)
       ELSE IF status = "synced"
            THEN [s1 EXCEPT !.summary.synced = @ + 1, !.pc = "delay"]
            ELSE Advance([s1 EXCEPT !.summary.skipped = @ + 1])

\* Throw with the catch of the bulk loop rethrowing: the first failed issue
\* ends the run.
ThrowAbortsBulk(st, op) ==
    LET s1 == [st EXCEPT !.inv = NoInv,
                         !.last = [st.inv EXCEPT !.outcome = "failed",
                                                 !.failedAt = op]]
    IN IF st.mode = "single"
       THEN Exit(s1, 1)
       ELSE Exit([s1 EXCEPT !.summary.failed = @ + 1], 1)

\* Throw with the error of a single-issue run caught without process.exit(1).
ThrowExitZero(st, op) ==
    LET s1 == [st EXCEPT !.inv = NoInv,
                         !.last = [st.inv EXCEPT !.outcome = "failed",
                                                 !.failedAt = op]]
    IN IF st.mode = "single"
       THEN Exit(s1, 0)
       ELSE Advance([s1 EXCEPT !.summary.failed = @ + 1])

\* Throw with the error of the Jira create call swallowed: syncIssue goes on
\* to applyJiraLabel with the key it did not get.
ThrowCreateSwallowed(st, op) ==
    LET s1 == [st EXCEPT !.inv = NoInv,
                         !.last = [st.inv EXCEPT !.outcome = "failed",
                                                 !.failedAt = op]]
    IN IF op = "jiraCreate"
       THEN [st EXCEPT !.pc = "getLabel"]
       ELSE IF st.mode = "single"
            THEN Exit(s1, 1)
            ELSE Advance([s1 EXCEPT !.summary.failed = @ + 1])

\* Throw with a retry: the call that failed is made again.
ThrowRetries(st, op) ==
    [st EXCEPT !.pc = IF op = "jiraCreate" THEN "create"
                      ELSE IF op = "get" THEN "get" ELSE "addLabels"]

\* Throw in a bulk run with the next issue begun while the failed one has
\* no outcome yet.
ThrowNoOutcome(st, op) ==
    IF st.mode = "single"
    THEN Exit([st EXCEPT !.inv = NoInv,
                         !.last = [st.inv EXCEPT !.outcome = "failed",
                                                 !.failedAt = op]], 1)
    ELSE Advance([st EXCEPT !.summary.failed = @ + 1])

\* An external call of syncIssue throws: main().catch in single mode, the
\* catch of the loop in bulk mode.
Throw(st, op) ==
    LET s1 == [st EXCEPT !.inv = NoInv,
                         !.last = [st.inv EXCEPT !.outcome = "failed",
                                                 !.failedAt = op]]
    IN IF st.mode = "single"
       THEN Exit(s1, 1)
       ELSE Advance([s1 EXCEPT !.summary.failed = @ + 1])

\* fs.appendFileSync(process.env.GITHUB_OUTPUT, `jira_key=${jiraKey}\n`)
WriteOutput(st) ==
    IF st.sink THEN [st EXCEPT !.out = Append(@, st.key)] ELSE st

\* The tail of syncIssue after the label and close steps.
Finish(st) == Return(WriteOutput(st), "synced", "", st.key)

\* ----------------------------------------------------------------- actions

Set(p, st) == proc' = [proc EXCEPT ![p] = st] /\ UNCHANGED <<given, ret>>

\* The issues a bulk run is to sync: open, not a pull request, no sync label.
Unsynced ==
    {n \in Issues : /\ issues[n].state = "open"
                    /\ ~issues[n].pr
                    /\ \A i \in 1..Len(issues[n].labels) :
                          ~IsSyncLabelName(issues[n].labels[i])}

\* main() with BULK_SYNC off: syncIssue(parseInt(GH_ISSUE_NUMBER)).  The
\* workflow passes the number of the issue of an `issues` event, which is
\* never a pull request.
StartSingle(p, n, dry, close, sink) ==
    /\ proc[p].pc = "idle"
    /\ ~issues[n].pr
    /\ Set(p, Begin([Fresh EXCEPT !.mode = "single", !.dry = dry,
                                  !.close = close, !.sink = sink], n))
    /\ UNCHANGED world

\* main() with BULK_SYNC on: bulkSync() starts with page 1.
StartBulk(p, dry, close, sink) ==
    /\ proc[p].pc = "idle"
    /\ Set(p, [Fresh EXCEPT !.mode = "bulk", !.dry = dry, !.close = close,
                            !.sink = sink, !.pc = "list", !.page = 1,
                            !.eligible = Unsynced])
    /\ UNCHANGED world

\* listForRepo returns a page: an empty page ends the run.
ListOk(p) ==
    LET st == proc[p]
        items == ListPage(st.page)
    IN /\ st.pc = "list"
       /\ Set(p, IF Len(items) = 0
                 THEN BulkEnd(st)
                 ELSE Advance([st EXCEPT !.items = items, !.idx = 0]))
       /\ UNCHANGED world

\* listForRepo throws: bulkSync throws and main().catch exits with 1.
ListFail(p) ==
    LET st == proc[p]
    IN /\ st.pc = "list"
       /\ Set(p, Exit(st, 1))
       /\ UNCHANGED world

\* The variables of the validation loop, in its order.
Required ==
    <<"GITHUB_TOKEN", "GH_REPO", "JIRA_BASE_URL", "JIRA_USER_EMAIL",
      "JIRA_API_TOKEN", "JIRA_PROJECT_KEY">>

EnvVars == {Required[i] : i \in 1..Len(Required)} \cup {"GH_ISSUE_NUMBER"}

\* The variable the startup error names when the variables of env are the
\* ones that are set: the first of the loop that is unset, else
\* GH_ISSUE_NUMBER when it is unset and BULK_SYNC is off; "" when the
\* process gets past both tests.
MissingVar(env, bulk) ==
    IF \E i \in 1..Len(Required) : Required[i] \notin env
    THEN Required[CHOOSE i \in 1..Len(Required) :
                     /\ Required[i] \notin env
                     /\ \A j \in 1..(i-1) : Required[j] \in env]
    ELSE IF ~bulk /\ "GH_ISSUE_NUMBER" \notin env THEN "GH_ISSUE_NUMBER"
         ELSE ""

\* Startup with the error not fatal: a bulk run goes on to its listing, a
\* single-issue run ends with exit code 0.
StartupNotFatal(env, bulk) ==
    IF bulk
    THEN [Fresh EXCEPT !.mode = "bulk", !.close = TRUE, !.pc = "list",
                       !.page = 1, !.unset = EnvVars \ env,
                       !.err = MissingVar(env, bulk)]
    ELSE [Fresh EXCEPT !.unset = EnvVars \ env, !.err = MissingVar(env, bulk)]

\* The process in an environment that lacks a variable: the error of the
\* module's validation loop is uncaught, the error of the test at the head
\* of main() is caught by main().catch; the process exits with 1 either way.
Startup(env, bulk) ==
    [Fresh EXCEPT !.exit = 1, !.unset = EnvVars \ env,
                  !.err = MissingVar(env, bulk)]

\* The environments of a misconfigured run: one variable unset, or all.
Envs == {EnvVars \ {v} : v \in EnvVars} \cup {{}}

\* main() in an environment that lacks a variable it requires.
StartMisconfigured(p, env, bulk) ==
    /\ proc[p].pc = "idle"
    /\ MissingVar(env, bulk) # ""
    /\ Set(p, Startup(env, bulk))
    /\ UNCHANGED world

\* AfterFetch without `if (issue.state === 'closed')`.
AfterFetchNoClosedTest(st, issue) ==
    LET existingKey == getJiraKeyFromLabels(issue.labels)
    IN IF existingKey # Null
       THEN Return(st, "skipped", "already_synced", existingKey)
       ELSE IF st.dry
            THEN Finish([st EXCEPT !.key = DryKey])
            ELSE [st EXCEPT !.pc = "create"]

\* AfterFetch without `if (ENV.DRY_RUN)` in createJiraIssue.
AfterFetchNoDryTest(st, issue) ==
    LET existingKey == getJiraKeyFromLabels(issue.labels)
    IN IF existingKey # Null
       THEN Return(st, "skipped", "already_synced", existingKey)
       ELSE IF issue.state = "closed"
            THEN Return(st, "skipped", "already_closed", Null)
            ELSE [st EXCEPT !.pc = "create"]

\* AfterFetch with the key of the invocation before taken for the key of
\* this issue (a variable that outlives the call of syncIssue).
AfterFetchRemembers(st, issue) ==
    LET existingKey == IF st.last.key # Null THEN st.last.key
                       ELSE getJiraKeyFromLabels(issue.labels)
    IN IF existingKey # Null
       THEN Return(st, "skipped", "already_synced", existingKey)
       ELSE IF issue.state = "closed"
            THEN Return(st, "skipped", "already_closed", Null)
            ELSE IF st.dry
                 THEN Finish([st EXCEPT !.key = DryKey])
                 ELSE [st EXCEPT !.pc = "create"]

\* The decision of syncIssue on the fetched issue, up to its next external
\* call.  createJiraIssue calls parseBody(issue.body) before anything else
\* it does with the issue, and throws where parseBody throws.  In dry-run
\* mode createJiraIssue, applyJiraLabel and closeIssue return without a
\* call, so the invocation runs to its end.
AfterFetch(st, issue) ==
    LET existingKey == getJiraKeyFromLabels(issue.labels)
    IN IF existingKey # Null
       THEN Return(st, "skipped", "already_synced", existingKey)
       ELSE IF issue.state = "closed"
            THEN Return(st, "skipped", "already_closed", Null)
            ELSE IF parseBodyThrows(issue.body)
                 THEN Throw(st, "parseBody")
                 ELSE IF st.dry
                      THEN Finish([st EXCEPT !.key = DryKey])
                      ELSE [st EXCEPT !.pc = "create"]

\* octokit.issues.get returns the issue.
GetOk(p) ==
    LET st == proc[p]
    IN /\ st.pc = "get"
       /\ Set(p, AfterFetch(Log([st EXCEPT !.inv.fetched = TRUE], "get", TRUE),
                            issues[st.cur]))
       /\ UNCHANGED world

\* octokit.issues.get throws.
GetFail(p) ==
    LET st == proc[p]
    IN /\ st.pc = "get"
       /\ Set(p, Throw(Log(st, "get", FALSE), "get"))
       /\ UNCHANGED world

\* AfterCreate with the label step left out.
AfterCreateNoLabel(st, key) ==
    IF st.close THEN [st EXCEPT !.key = key, !.pc = "comment"]
    ELSE Finish([st EXCEPT !.key = key])

\* What syncIssue does once createJiraIssue returned the key: applyJiraLabel
\* starts with the getLabel call of ensureLabel.
AfterCreate(st, key) == [st EXCEPT !.key = key, !.pc = "getLabel"]

\* jira('POST', '/issue', payload) returns the key of the new ticket.
JiraCreateOk(p) ==
    LET st == proc[p]
    IN /\ st.pc = "create"
       /\ Len(tickets) < MaxTickets
       /\ tickets' = Append(tickets, st.cur)
       /\ Set(p, AfterCreate(Log(st, "jiraCreate", TRUE),
                             JiraKey(Len(tickets) + 1)))
       /\ UNCHANGED <<issues, repoLabels, comments>>

\* jira() throws on a response that is not ok: no ticket was created.
JiraCreateFail(p) ==
    LET st == proc[p]
    IN /\ st.pc = "create"
       /\ Set(p, Throw(Log(st, "jiraCreate", FALSE), "jiraCreate"))
       /\ UNCHANGED world

\* ensureLabel: getLabel finds the label, nothing is created.
GetLabelFound(p) ==
    LET st == proc[p]
    IN /\ st.pc = "getLabel"
       /\ JiraLabelName(st.key) \in repoLabels
       /\ Set(p, [Log(st, "getLabel", TRUE) EXCEPT !.pc = "addLabels"])
       /\ UNCHANGED world

\* ensureLabel: getLabel throws 404, the bare catch goes on to createLabel.
GetLabelAbsent(p) ==
    LET st == proc[p]
    IN /\ st.pc = "getLabel"
       /\ JiraLabelName(st.key) \notin repoLabels
       /\ Set(p, [Log(st, "getLabel", FALSE) EXCEPT !.pc = "createLabel"])
       /\ UNCHANGED world

\* ensureLabel: getLabel throws for another reason (transport) although the
\* label exists; the bare catch goes on to createLabel all the same.
GetLabelError(p) ==
    LET st == proc[p]
    IN /\ st.pc = "getLabel"
       /\ JiraLabelName(st.key) \in repoLabels
       /\ Set(p, [Log(st, "getLabel", FALSE) EXCEPT !.pc = "createLabel"])
       /\ UNCHANGED world

\* createLabel adds the label to the repository.
CreateLabelOk(p) ==
    LET st == proc[p]
    IN /\ st.pc = "createLabel"
       /\ JiraLabelName(st.key) \notin repoLabels
       /\ repoLabels' = repoLabels \cup {JiraLabelName(st.key)}
       /\ Set(p, [Log(st, "createLabel", TRUE) EXCEPT !.pc = "addLabels"])
       /\ UNCHANGED <<issues, comments, tickets>>

\* createLabel throws (the label exists already, or transport).
CreateLabelFail(p) ==
    LET st == proc[p]
    IN /\ st.pc = "createLabel"
       /\ Set(p, Throw(Log(st, "createLabel", FALSE), "createLabel"))
       /\ UNCHANGED world

\* AfterLabel with closeIssue called whatever CLOSE_AFTER_SYNC says.
AfterLabelAlwaysClose(st) == [st EXCEPT !.pc = "comment"]

\* What syncIssue does once applyJiraLabel returned: closeIssue starts with
\* createComment when CLOSE_AFTER_SYNC is on.
AfterLabel(st) ==
    IF st.close THEN [st EXCEPT !.pc = "comment"] ELSE Finish(st)

\* addLabels attaches the label to the issue.
AddLabelsOk(p) ==
    LET st == proc[p]
    IN /\ st.pc = "addLabels"
       /\ issues' = [issues EXCEPT ![st.cur].labels =
                        AddLabel(@, JiraLabelName(st.key))]
       /\ Set(p, AfterLabel(Log(st, "addLabels", TRUE)))
       /\ UNCHANGED <<repoLabels, comments, tickets>>

AddLabelsFail(p) ==
    LET st == proc[p]
    IN /\ st.pc = "addLabels"
       /\ Set(p, Throw(Log(st, "addLabels", FALSE), "addLabels"))
       /\ UNCHANGED world

\* closeIssue: createComment posts the comment with the Jira link.
CommentOk(p) ==
    LET st == proc[p]
    IN /\ st.pc = "comment"
       /\ comments' = [comments EXCEPT ![st.cur] = @ + 1]
       /\ Set(p, [Log(st, "createComment", TRUE) EXCEPT !.pc = "update"])
       /\ UNCHANGED <<issues, repoLabels, tickets>>

CommentFail(p) ==
    LET st == proc[p]
    IN /\ st.pc = "comment"
       /\ Set(p, Throw(Log(st, "createComment", FALSE), "createComment"))
       /\ UNCHANGED world

\* closeIssue: issues.update({state: 'closed', state_reason: 'not_planned'}).
UpdateOk(p) ==
    LET st == proc[p]
    IN /\ st.pc = "update"
       /\ issues' = [issues EXCEPT ![st.cur].state = "closed"]
       /\ Set(p, Finish(Log(st, "update", TRUE)))
       /\ UNCHANGED <<repoLabels, comments, tickets>>

UpdateFail(p) ==
    LET st == proc[p]
    IN /\ st.pc = "update"
       /\ Set(p, Throw(Log(st, "update", FALSE), "update"))
       /\ UNCHANGED world

\* bulkSync: the setTimeout of 400 ms after a synced issue ends.
DelayDone(p) ==
    LET st == proc[p]
    IN /\ st.pc = "delay"
       /\ Set(p, Advance(st))
       /\ UNCHANGED world

\* The process is killed (the workflow run is cancelled, the runner dies)
\* while it waits for an external call or for the delay of the bulk loop:
\* no catch and no later statement of bulkSync or syncIssue runs.  What the
\* calls that returned wrote to the trackers stays.
Kill(p) ==
    LET st == proc[p]
    IN /\ st.pc # "idle"
       /\ Set(p, Exit(st, 1))
       /\ UNCHANGED world

\* --------------------------------------- the functions applied to an issue

Returns(fn, val) ==
    /\ ret' = [fn |-> fn, val |-> val]
    /\ UNCHANGED <<issues, repoLabels, comments, tickets, proc, given>>

ApplyGetJiraKeyFromLabels ==
    Returns("getJiraKeyFromLabels", getJiraKeyFromLabels(given.issue.labels))

ApplyDerivePriority ==
    Returns("derivePriority", derivePriority(given.issue.labels))

ApplyDeriveIssueType ==
    Returns("deriveIssueType",
            deriveIssueType(given.issue.labels, given.typeDefault))

ApplyParseBody ==
    Returns("parseBody",
            IF parseBodyThrows(given.issue.body) THEN [threw |-> TRUE]
            ELSE [threw |-> FALSE, meta |-> parseBody(given.issue.body)])

ApplyCreateJiraIssue ==
    Returns("createJiraIssue", createJiraIssue(given.issue, given.typeDefault))

\* applyJiraLabel(number, jiraKey) with the key that POST /issue returned,
\* then getJiraKeyFromLabels on the labels of the issue as the next fetch
\* returns them.  The issue is labelled once.
ApplyJiraLabelThenFetch ==
    /\ ret = NoRet
    /\ \E jiraKey \in ReturnedKeys :
          LET labels == AddLabel(given.issue.labels, JiraLabelName(jiraKey))
          IN Returns("applyJiraLabel",
                     [jiraKey |-> jiraKey, labels |-> labels,
                      existingKey |-> getJiraKeyFromLabels(labels)])

\* createJiraIssue in dry-run mode with JIRA_PROJECT_KEY set to project: the
\* key it returns and the label name applyJiraLabel logs for it.
ApplyDryRun ==
    /\ ret = NoRet
    /\ \E project \in ConfiguredKeys :
          Returns("dryRun",
                  [project |-> project, jiraKey |-> DryKeyFor(project),
                   name |-> JiraLabelName(DryKeyFor(project))])

\* ---------------------------------------------------------- specifications

\* Runs of main() one after the other, every external call free to fail.
Next ==
    \E p \in {"a"} :
       \/ \E dry \in BOOLEAN, close \in BOOLEAN, sink \in BOOLEAN, n \in Issues :
             StartSingle(p, n, dry, close, sink)
       \/ \E dry \in BOOLEAN, close \in BOOLEAN, sink \in BOOLEAN :
             StartBulk(p, dry, close, sink)
       \/ ListOk(p) \/ ListFail(p)
       \/ GetOk(p) \/ GetFail(p)
       \/ JiraCreateOk(p) \/ JiraCreateFail(p)
       \/ GetLabelFound(p) \/ GetLabelAbsent(p) \/ GetLabelError(p)
       \/ CreateLabelOk(p) \/ CreateLabelFail(p)
       \/ AddLabelsOk(p) \/ AddLabelsFail(p)
       \/ CommentOk(p) \/ CommentFail(p)
       \/ UpdateOk(p) \/ UpdateFail(p)
       \/ DelayDone(p)

Spec == Init /\ [][Next]_vars

\* The same, with runs in an environment that lacks a required variable.
NextEnv ==
    \/ Next
    \/ \E p \in {"a"}, env \in Envs, bulk \in BOOLEAN :
          StartMisconfigured(p, env, bulk)

SpecEnv == Init /\ [][NextEnv]_vars

\* Runs of main() one after the other in which every external call succeeds
\* (a getLabel that answers 404 for an absent label is the API's answer).
NextOk ==
    \E p \in {"a"} :
       \/ \E dry \in BOOLEAN, close \in BOOLEAN, sink \in BOOLEAN, n \in Issues :
             StartSingle(p, n, dry, close, sink)
       \/ \E dry \in BOOLEAN, close \in BOOLEAN, sink \in BOOLEAN :
             StartBulk(p, dry, close, sink)
       \/ ListOk(p)
       \/ GetOk(p)
       \/ JiraCreateOk(p)
       \/ GetLabelFound(p) \/ GetLabelAbsent(p)
       \/ CreateLabelOk(p)
       \/ AddLabelsOk(p)
       \/ CommentOk(p)
       \/ UpdateOk(p)
       \/ DelayDone(p)

SpecOk == Init /\ [][NextOk]_vars

\* Two workflow runs in single-issue mode whose external calls interleave
\* (the workflow has no concurrency group); every call succeeds.
NextConc ==
    \E p \in Procs :
       \/ \E close \in BOOLEAN, sink \in BOOLEAN, n \in Issues :
             StartSingle(p, n, FALSE, close, sink)
       \/ GetOk(p)
       \/ JiraCreateOk(p)
       \/ GetLabelFound(p) \/ GetLabelAbsent(p)
       \/ CreateLabelOk(p)
       \/ AddLabelsOk(p)
       \/ CommentOk(p)
       \/ UpdateOk(p)

SpecConc == Init /\ [][NextConc]_vars

\* Bulk runs one after the other, each of which may be killed at any of its
\* awaits; every external call that is made succeeds.
NextKill ==
    \E p \in {"a"} :
       \/ \E dry \in BOOLEAN, close \in BOOLEAN, sink \in BOOLEAN :
             StartBulk(p, dry, close, sink)
       \/ ListOk(p)
       \/ GetOk(p)
       \/ JiraCreateOk(p)
       \/ GetLabelFound(p) \/ GetLabelAbsent(p)
       \/ CreateLabelOk(p)
       \/ AddLabelsOk(p)
       \/ CommentOk(p)
       \/ UpdateOk(p)
       \/ DelayDone(p)
       \/ Kill(p)

SpecKill == Init /\ [][NextKill]_vars

\* Labels of the `jira:` family that an issue may carry before the first
\* run: the label of a ticket of another project, which matches the pattern
\* of getJiraKeyFromLabels, and a name that starts with `jira:` and does not
\* match it (a key in lower case).
PriorLabels ==
    {<<"j","i","r","a",":","A","1","B","-","1","0">>,
     <<"j","i","r","a",":","a","b","-","1">>}

\* A repository of open issues, each with or without one of PriorLabels, and
\* no ticket in the Jira project yet.
InitPrior ==
    \E prior \in [Issues -> PriorLabels \cup {Null}], extra \in BOOLEAN :
       /\ issues = [n \in Issues |->
                      [state |-> "open",
                       labels |-> IF prior[n] = Null THEN <<BugLabel>>
                                  ELSE <<BugLabel, prior[n]>>,
                       pr |-> FALSE, body |-> BaseIssue.body]]
       /\ tickets = <<>>
       /\ repoLabels = {BugLabel} \cup (IF extra THEN {JiraLabelName(JiraKey(1))} ELSE {})
       /\ comments = [n \in Issues |-> 0]
       /\ proc = [p \in Procs |-> Fresh]
       /\ given = NoGiven
       /\ ret = NoRet

\* Runs of main() one after the other on such a repository, every external
\* call succeeding.
SpecPrior == InitPrior /\ [][NextOk]_vars

\* A repository before its first run, for repeated bulk runs: open issues
\* with a body of text, open issues without a description (the API returns
\* `body: null` for them), and pull requests.
InitLive ==
    \E kinds \in [Issues -> {"open", "nobody", "pr"}] :
       /\ issues = [n \in Issues |->
                      IF kinds[n] = "nobody"
                      THEN [state |-> "open", labels |-> <<BugLabel>>,
                            pr |-> FALSE, body |-> NullBody]
                      ELSE InitIssue(kinds, n)]
       /\ tickets = <<>>
       /\ repoLabels = {BugLabel}
       /\ comments = [n \in Issues |-> 0]
       /\ proc = [p \in Procs |-> Fresh]
       /\ given = NoGiven
       /\ ret = NoRet

\* Bulk runs (dry-run off) one after the other, every external call
\* succeeding.  Every key is new, so getLabel never finds the label of the
\* ticket.
NextLive ==
    \E p \in {"a"} :
       \/ \E close \in BOOLEAN : StartBulk(p, FALSE, close, FALSE)
       \/ ListOk(p)
       \/ GetOk(p)
       \/ JiraCreateOk(p)
       \/ GetLabelAbsent(p)
       \/ CreateLabelOk(p)
       \/ AddLabelsOk(p)
       \/ CommentOk(p)
       \/ UpdateOk(p)
       \/ DelayDone(p)

\* Bulk runs are repeated, and a run goes on as long as it has a next step:
\* every call it makes returns.
FairLive ==
    /\ WF_vars(\E close \in BOOLEAN : StartBulk("a", FALSE, close, FALSE))
    /\ WF_vars(ListOk("a"))
    /\ WF_vars(GetOk("a"))
    /\ WF_vars(JiraCreateOk("a"))
    /\ WF_vars(GetLabelAbsent("a"))
    /\ WF_vars(CreateLabelOk("a"))
    /\ WF_vars(AddLabelsOk("a"))
    /\ WF_vars(CommentOk("a"))
    /\ WF_vars(UpdateOk("a"))
    /\ WF_vars(DelayDone("a"))

SpecLive == InitLive /\ [][NextLive]_vars /\ FairLive

\* A step of a run of process p: the external call it waits for returns or
\* throws, or the delay of the bulk loop ends.
RunStep(p) ==
    \/ ListOk(p) \/ ListFail(p)
    \/ GetOk(p) \/ GetFail(p)
    \/ JiraCreateOk(p) \/ JiraCreateFail(p)
    \/ GetLabelFound(p) \/ GetLabelAbsent(p) \/ GetLabelError(p)
    \/ CreateLabelOk(p) \/ CreateLabelFail(p)
    \/ AddLabelsOk(p) \/ AddLabelsFail(p)
    \/ CommentOk(p) \/ CommentFail(p)
    \/ UpdateOk(p) \/ UpdateFail(p)
    \/ DelayDone(p)

\* Bulk runs one after the other, without an output sink, every external
\* call free to fail.
NextBulk ==
    \E p \in {"a"} :
       \/ \E dry \in BOOLEAN, close \in BOOLEAN : StartBulk(p, dry, close, FALSE)
       \/ RunStep(p)

\* Every external call returns, with a result or with an error, and the
\* timer of the delay fires: a run that has a next step takes it.
FairBulk == WF_vars(RunStep("a"))

SpecBulk == Init /\ [][NextBulk]_vars /\ FairBulk

\* The functions that derive the Jira fields, applied to one fetched issue:
\* the trackers are a repository of open issues no run has touched.
InitFn ==
    /\ issues = [n \in Issues |-> InitIssue([m \in Issues |-> "open"], n)]
    /\ tickets = <<>>
    /\ repoLabels = {BugLabel}
    /\ comments = [n \in Issues |-> 0]
    /\ proc = [p \in Procs |-> Fresh]
    /\ given \in [issue : GivenIssues, typeDefault : {"Task", "Epic"}]
    /\ ret = NoRet

NextFn ==
    \/ ApplyGetJiraKeyFromLabels
    \/ ApplyDerivePriority
    \/ ApplyDeriveIssueType
    \/ ApplyParseBody
    \/ ApplyCreateJiraIssue

SpecFn == InitFn /\ [][NextFn]_vars

\* The keys of Jira and of the dry run, made into labels of an issue that
\* was never synced.
InitKey ==
    /\ issues = [n \in Issues |-> InitIssue([m \in Issues |-> "open"], n)]
    /\ tickets = <<>>
    /\ repoLabels = {BugLabel}
    /\ comments = [n \in Issues |-> 0]
    /\ proc = [p \in Procs |-> Fresh]
    /\ given \in [issue : {[BaseIssue EXCEPT !.labels = l] : l \in UnsyncedLabelLists},
                   typeDefault : {"Task"}]
    /\ ret = NoRet

NextKey == ApplyJiraLabelThenFetch \/ ApplyDryRun

SpecKey == InitKey /\ [][NextKey]_vars

\* ------------------------------------------------------------- vocabulary

\* Number of Jira tickets created for issue n.
TicketsFor(n) == Cardinality({t \in 1..Len(tickets) : tickets[t] = n})

\* The label names that name a ticket of the Jira project.
TicketLabels == {JiraLabelName(JiraKey(t)) : t \in 1..Len(tickets)}

\* Issue n carries the label of a Jira ticket: a label step was completed
\* on it (by a run of this behaviour or by an earlier one).
Attached(n) == \E i \in 1..Len(issues[n].labels) : issues[n].labels[i] \in TicketLabels

\* The keys of the tickets whose label issue n carries.
AttachedKeys(n) ==
    {JiraKey(t) : t \in {u \in 1..Len(tickets) :
        \E i \in 1..Len(issues[n].labels) :
           issues[n].labels[i] = JiraLabelName(JiraKey(u))}}

\* Number of labels of issue n that match the sync-label pattern.
SyncLabelCount(n) ==
    Cardinality({i \in 1..Len(issues[n].labels) : IsSyncLabelName(issues[n].labels[i])})

Count(seq, x) == Cardinality({i \in 1..Len(seq) : seq[i] = x})

\* This step ends the invocation of syncIssue that process p has in progress;
\* its result is then proc'[p].last.
Ends(p) ==
    /\ proc[p].inv.outcome = "running"
    /\ \/ proc'[p].inv = NoInv
       \/ Len(proc'[p].visited) > Len(proc[p].visited)

\* This step is a step of process p.
Steps(p) == proc'[p] # proc[p]

\* The external calls of the invocation that process p is in or has just
\* ended, after this step.
CallsAfter(p) ==
    IF Ends(p) THEN proc'[p].last.calls ELSE proc'[p].inv.calls

WriteOps == {"jiraCreate", "createLabel", "addLabels", "createComment", "update"}

NoWriteCall(calls) == \A i \in 1..Len(calls) : calls[i].op \notin WriteOps

SkippedSynced(res, key) ==
    /\ res.outcome = "skipped"
    /\ res.reason = "already_synced"
    /\ res.key = key

\* ------------------------------------------------------------------ claims

\* C1: once the label step was completed on an issue (it carries the label
\* of a Jira ticket), every later invocation of syncIssue on it ends at the
\* issue fetch, without any write call and with the trackers and the output
\* sink unchanged, and when the fetch returned the issue the result is
\* skipped/already_synced with the key of that label.
C1_Idempotent ==
    [][\A p \in Procs :
          (proc[p].pc = "get" /\ Attached(proc[p].cur) /\ Steps(p))
             => /\ Ends(p)
                /\ UNCHANGED world
                /\ proc'[p].out = proc[p].out
                /\ NoWriteCall(proc'[p].last.calls)
                /\ proc'[p].last.issue = proc[p].cur
                /\ proc'[p].last.fetched
                     => /\ AttachedKeys(proc[p].cur) = {proc'[p].last.key}
                        /\ SkippedSynced(proc'[p].last, proc'[p].last.key)]_vars

\* A run that posted its comment on issue n labelled it before; a later
\* invocation on n was skipped as already synced with the key of n's ticket.
C1_Witness ==
    \E n \in Issues :
       /\ comments[n] = 1
       /\ proc["a"].pc = "idle"
       /\ proc["a"].last.issue = n
       /\ proc["a"].last.calls = <<[op |-> "get", ok |-> TRUE]>>
       /\ \E t \in 1..Len(tickets) :
             tickets[t] = n /\ SkippedSynced(proc["a"].last, JiraKey(t))

\* C2: when every external call succeeds, no issue ever has more than one
\* Jira ticket, whatever single-issue and bulk runs follow one another.
C2_AtMostOneTicket == \A n \in Issues : TicketsFor(n) <= 1

\* An issue was synced and closed by one run and met again by a later one.
C2_Witness ==
    \E n \in Issues :
       /\ TicketsFor(n) = 1
       /\ comments[n] = 1
       /\ issues[n].state = "closed"
       /\ proc["a"].last.issue = n
       /\ proc["a"].last.outcome = "skipped"

\* C3: with two invocations interleaved, no issue gets more than one Jira
\* ticket or more than one sync label.
C3_ConcurrentSafe ==
    \A n \in Issues : TicketsFor(n) <= 1 /\ SyncLabelCount(n) <= 1

\* A Jira ticket exists for issue n, and n is open and carries no label of
\* a ticket: in sequential runs, what a failed label step leaves behind.
Orphaned(n) ==
    /\ issues[n].state = "open"
    /\ TicketsFor(n) >= 1
    /\ ~Attached(n)

\* After this step of process p at the issue fetch, the fetch has returned
\* the issue (it did not throw).
FetchedAfter(p) ==
    IF Ends(p) THEN proc'[p].last.fetched ELSE proc'[p].inv.fetched

\* The last call of an invocation threw.
LastCallThrew(calls) == Len(calls) > 0 /\ ~calls[Len(calls)].ok

\* C4: when createLabel or addLabels throws after the Jira create call
\* succeeded, the invocation ends as failed (exit code 1 in single mode, one
\* more failed in the bulk summary), the issue is open and carries no sync
\* label, and no key is written to the output sink; and an invocation with
\* dry-run off that then fetches the issue goes on to the Jira create call.
C4_LabelFailureDuplicates ==
    [][\A p \in Procs, n \in Issues :
          /\ (proc[p].pc \in {"createLabel", "addLabels"} /\ proc[p].cur = n
                /\ Ends(p) /\ LastCallThrew(proc'[p].last.calls))
                => /\ proc'[p].last.outcome = "failed"
                   /\ proc'[p].last.issue = n
                   /\ proc[p].mode = "single"
                        => proc'[p].pc = "idle" /\ proc'[p].exit = 1
                   /\ proc[p].mode = "bulk"
                        => proc'[p].summary.failed = proc[p].summary.failed + 1
                   /\ TicketsFor(n)' >= 1
                   /\ issues'[n].state = "open"
                   /\ SyncLabelCount(n)' = 0
                   /\ ~Attached(n)'
                   /\ comments' = comments
                   /\ proc'[p].out = proc[p].out
          /\ (proc[p].pc = "get" /\ proc[p].cur = n /\ Orphaned(n)
                /\ ~proc[p].dry /\ Steps(p) /\ FetchedAfter(p))
                => /\ proc'[p].pc = "create"
                   /\ proc'[p].cur = n
                   /\ proc'[p].inv.outcome = "running"]_vars

\* An issue has two Jira tickets and no label: the second was created by the
\* invocation that followed a failed label step, and its label step failed too.
C4_Witness ==
    \E n \in Issues :
       /\ TicketsFor(n) = 2
       /\ Orphaned(n)
       /\ proc["a"].last.issue = n
       /\ proc["a"].last.failedAt \in {"createLabel", "addLabels"}

\* C5: when createComment or the state update throws after the label step,
\* the issue is left open with the sync label of its ticket; and every
\* invocation on an open issue that carries the label of a ticket ends at
\* the fetch with no write call, the trackers unchanged, and the result
\* skipped/already_synced when the fetch returned.
C5_CloseFailureHeals ==
    [][\A p \in Procs, n \in Issues :
          /\ (proc[p].pc \in {"comment", "update"} /\ proc[p].cur = n
                /\ Ends(p) /\ proc'[p].last.outcome = "failed")
                => /\ issues'[n].state = "open"
                   /\ getJiraKeyFromLabels(issues'[n].labels) = proc[p].key
                   /\ AttachedKeys(n)' = {proc[p].key}
                   /\ TicketsFor(n)' = TicketsFor(n)
          /\ (proc[p].pc = "get" /\ proc[p].cur = n
                /\ issues[n].state = "open" /\ Attached(n) /\ Steps(p))
                => /\ Ends(p)
                   /\ UNCHANGED world
                   /\ NoWriteCall(proc'[p].last.calls)
                   /\ proc'[p].last.fetched
                        => /\ proc'[p].last.outcome = "skipped"
                           /\ proc'[p].last.reason = "already_synced"
                           /\ proc'[p].last.key \in AttachedKeys(n)]_vars

\* The comment was posted but the issue is still open (the update threw), and
\* a later invocation on it was skipped as already synced.
C5_Witness ==
    \E n \in Issues :
       /\ comments[n] = 1
       /\ issues[n].state = "open"
       /\ TicketsFor(n) = 1
       /\ proc["a"].last.issue = n
       /\ proc["a"].last.outcome = "skipped"
       /\ proc["a"].last.reason = "already_synced"

\* The calls of an invocation hold at most one Jira create call, and a
\* failed one is the last call of the invocation.
CreateOnceAndLast(calls) ==
    /\ Cardinality({i \in 1..Len(calls) : calls[i].op = "jiraCreate"}) <= 1
    /\ \A i \in 1..Len(calls) :
          (calls[i].op = "jiraCreate" /\ ~calls[i].ok) => i = Len(calls)

\* C6: when the Jira create call throws, the invocation ends there as
\* failed: its only calls were the issue fetch and the one create call, the
\* trackers and the output sink are as they were, and the create call is not
\* made again.
C6_CreateFailureUntouched ==
    /\ [](\A p \in Procs : /\ CreateOnceAndLast(proc[p].inv.calls)
                           /\ CreateOnceAndLast(proc[p].last.calls)
                           /\ proc[p].last.failedAt = "jiraCreate"
                                => /\ proc[p].last.outcome = "failed"
                                   /\ proc[p].last.calls =
                                        <<[op |-> "get", ok |-> TRUE],
                                          [op |-> "jiraCreate", ok |-> FALSE]>>)
    /\ [][\A p \in Procs :
             (proc[p].pc = "create" /\ Steps(p) /\ tickets' = tickets)
                => /\ Ends(p)
                   /\ proc'[p].last.failedAt = "jiraCreate"
                   /\ UNCHANGED world
                   /\ proc'[p].out = proc[p].out
                   /\ proc'[p].pc # "create"]_vars

\* A bulk run counted an issue as failed at the Jira create call, and that
\* issue has no ticket, no sync label and no comment.
C6_Witness ==
    \E n \in Issues :
       /\ proc["a"].last.issue = n
       /\ proc["a"].last.failedAt = "jiraCreate"
       /\ proc["a"].summary.failed = 1
       /\ TicketsFor(n) = 0
       /\ issues[n].state = "open"
       /\ SyncLabelCount(n) = 0

\* The calls that may come right before a call within one invocation.
Before(op) ==
    CASE op = "get" -> {}
      [] op = "jiraCreate" -> {"get"}
      [] op = "getLabel" -> {"jiraCreate"}
      [] op = "createLabel" -> {"getLabel"}
      [] op = "addLabels" -> {"getLabel", "createLabel"}
      [] op = "createComment" -> {"addLabels"}
      [] op = "update" -> {"createComment"}

\* The calls of an invocation are in the order of syncIssue: the issue fetch
\* first, no call twice, every call right after the call it follows in the
\* code, and only after that call returned; the one call that goes on after
\* a throw is createLabel after getLabel (the catch of ensureLabel).
InOrder(calls) ==
    /\ Len(calls) > 0 => calls[1].op = "get"
    /\ \A i, j \in 1..Len(calls) : i # j => calls[i].op # calls[j].op
    /\ \A i \in 2..Len(calls) :
          /\ calls[i-1].op \in Before(calls[i].op)
          /\ calls[i-1].ok = ~(calls[i].op = "createLabel")

\* C7: the external calls of every invocation are made in the order fetch,
\* Jira create, getLabel, createLabel, addLabels, createComment, update, each
\* after the one before returned, none twice; each tracker changes only by
\* the call that writes it; and an issue goes from open to closed only when
\* it carries the sync label of the invocation's ticket and a comment of it.
C7_WriteOrder ==
    /\ [](\A p \in Procs : InOrder(proc[p].inv.calls) /\ InOrder(proc[p].last.calls))
    /\ [][/\ tickets' # tickets => \E p \in Procs : proc[p].pc = "create"
          /\ repoLabels' # repoLabels => \E p \in Procs : proc[p].pc = "createLabel"
          /\ comments' # comments => \E p \in Procs : proc[p].pc = "comment"
          /\ \A n \in Issues :
                /\ issues'[n].labels # issues[n].labels
                      => \E p \in Procs : proc[p].pc = "addLabels" /\ proc[p].cur = n
                /\ issues'[n].state # issues[n].state
                      => /\ issues[n].state = "open"
                         /\ \E p \in Procs :
                               /\ proc[p].pc = "update" /\ proc[p].cur = n
                               /\ getJiraKeyFromLabels(issues[n].labels) = proc[p].key
                               /\ proc[p].inv.calls[Len(proc[p].inv.calls)] =
                                     [op |-> "createComment", ok |-> TRUE]
                         /\ comments[n] >= 1]_vars

\* An invocation made all five writes and closed the issue.
C7_Witness ==
    \E n \in Issues :
       /\ issues[n].state = "closed"
       /\ proc["a"].last.issue = n
       /\ proc["a"].last.outcome = "synced"
       /\ Len(proc["a"].last.calls) = 7

\* C8: an invocation on a closed issue without a sync label ends at the fetch
\* with no write and the trackers unchanged, as skipped/already_closed when
\* the fetch returned; no step opens a closed issue; and a Jira ticket is
\* created only for an issue that is open.
C8_ClosedTerminal ==
    [][/\ \A p \in Procs, n \in Issues :
             (proc[p].pc = "get" /\ proc[p].cur = n /\ Steps(p)
                /\ issues[n].state = "closed" /\ SyncLabelCount(n) = 0)
                => /\ Ends(p)
                   /\ UNCHANGED world
                   /\ NoWriteCall(proc'[p].last.calls)
                   /\ proc'[p].out = proc[p].out
                   /\ proc'[p].last.fetched
                        => /\ proc'[p].last.outcome = "skipped"
                           /\ proc'[p].last.reason = "already_closed"
       /\ \A n \in Issues : issues[n].state = "closed" => issues'[n].state = "closed"
       /\ tickets' # tickets
             => /\ Len(tickets') = Len(tickets) + 1
                /\ issues[tickets'[Len(tickets')]].state = "open"]_vars

\* An invocation met a closed issue without a sync label and skipped it.
C8_Witness ==
    \E n \in Issues :
       /\ issues[n].state = "closed"
       /\ SyncLabelCount(n) = 0
       /\ TicketsFor(n) = 0
       /\ proc["a"].last.issue = n
       /\ proc["a"].last.outcome = "skipped"
       /\ proc["a"].last.reason = "already_closed"

\* C9: no step of a dry-run process changes the issues, the repository
\* labels, the comments or the Jira tickets, and its invocations make no call
\* but the issue fetch; the decision is still taken on the fetched issue:
\* already_synced, already_closed, or synced with the placeholder key.
C9_DryRunNoWrites ==
    [][\A p \in Procs :
          (proc[p].dry /\ Steps(p))
             => /\ UNCHANGED world
                /\ NoWriteCall(CallsAfter(p))
                /\ proc'[p].pc \in {"idle", "list", "get", "delay"}
                /\ \A n \in Issues :
                      (proc[p].pc = "get" /\ proc[p].cur = n /\ FetchedAfter(p))
                         => /\ Ends(p)
                            /\ proc'[p].last.calls = <<[op |-> "get", ok |-> TRUE]>>
                            /\ IF SyncLabelCount(n) > 0
                               THEN /\ proc'[p].last.outcome = "skipped"
                                    /\ proc'[p].last.reason = "already_synced"
                               ELSE IF issues[n].state = "closed"
                                    THEN /\ proc'[p].last.outcome = "skipped"
                                         /\ proc'[p].last.reason = "already_closed"
                                    ELSE /\ proc'[p].last.outcome = "synced"
                                         /\ proc'[p].last.key = DryKey]_vars

\* A dry bulk run went through an open unlabeled issue: it counts as synced
\* with the placeholder key, and the issue has no ticket, label or comment.
C9_Witness ==
    \E n \in Issues :
       /\ proc["a"].dry
       /\ proc["a"].mode = "bulk"
       /\ proc["a"].pc = "delay"
       /\ proc["a"].last.issue = n
       /\ proc["a"].last.outcome = "synced"
       /\ proc["a"].last.key = DryKey
       /\ TicketsFor(n) = 0
       /\ issues[n].state = "open"
       /\ SyncLabelCount(n) = 0
       /\ comments[n] = 0

\* C10: when a bulk run with close-after-sync on ends, every issue that was
\* open, not a pull request and without a sync label at its start has been
\* passed to syncIssue exactly once.
C10_BulkCoverage ==
    [][\A p \in Procs :
          (proc[p].mode = "bulk" /\ proc[p].close /\ proc[p].pc # "idle"
             /\ proc'[p].pc = "idle")
             => \A n \in proc[p].eligible : Count(proc[p].visited, n) = 1]_vars

\* The positions after the current one of the page process p is in that do
\* not hold a pull request.
RestOfPage(p) ==
    {j \in (proc[p].idx + 1)..Len(proc[p].items) : ~issues[proc[p].items[j]].pr}

Running(p) == IF proc[p].inv.outcome = "running" THEN 1 ELSE 0

\* C12: a bulk run passes no pull request to syncIssue, so no invocation and
\* no external call is about one; the three counts add up to the number of
\* invocations that ended, so a pull request is in none of them; and no step
\* of a bulk run changes the labels, the state, the comments or the tickets
\* of a pull request.
C12_PullRequestsExcluded ==
    /\ [](\A p \in Procs :
            proc[p].mode = "bulk"
               => /\ \A i \in 1..Len(proc[p].visited) :
                        ~issues[proc[p].visited[i]].pr
                  /\ proc[p].inv.issue # 0 => ~issues[proc[p].inv.issue].pr
                  /\ proc[p].summary.synced + proc[p].summary.skipped
                        + proc[p].summary.failed
                        = Len(proc[p].visited) - Running(p))
    /\ [][\A p \in Procs, n \in Issues :
             (proc[p].mode = "bulk" /\ Steps(p) /\ issues[n].pr)
                => /\ issues'[n] = issues[n]
                   /\ comments'[n] = comments[n]
                   /\ TicketsFor(n)' = TicketsFor(n)]_vars

\* The first page of a bulk run held the pull request 2; the run went on to
\* the next page and synced issue 1, the only issue it counted.
C12_Witness ==
    /\ issues[2].pr
    /\ proc["a"].mode = "bulk"
    /\ proc["a"].page = 2
    /\ proc["a"].visited = <<1>>
    /\ proc["a"].pc = "delay"
    /\ proc["a"].summary = [synced |-> 1, skipped |-> 0, failed |-> 0]

\* C13: a process that lacks a required variable ends with a non-zero exit
\* code; so does a single-issue run when a call of syncIssue throws; and a
\* bulk run that ends with failed > 0 in its summary ends with a non-zero
\* exit code, whatever it synced or skipped.
C13_ExitCode ==
    [][\A p \in Procs :
          /\ (Steps(p) /\ proc'[p].unset # {})
                => proc'[p].pc = "idle" /\ proc'[p].exit # 0
          /\ (proc[p].mode = "single" /\ Ends(p)
                /\ LastCallThrew(proc'[p].last.calls))
                => /\ proc'[p].pc = "idle"
                   /\ proc'[p].last.outcome = "failed"
                   /\ proc'[p].exit # 0
          /\ (proc[p].mode = "bulk" /\ proc'[p].pc = "idle")
                => /\ proc'[p].summary.failed >= proc[p].summary.failed
                   /\ proc'[p].summary.synced = proc[p].summary.synced
                   /\ proc'[p].summary.failed > 0 => proc'[p].exit # 0]_vars

\* A bulk run synced one issue, failed on another and ended with exit code 1.
C13_Witness ==
    /\ proc["a"].pc = "idle"
    /\ proc["a"].summary = [synced |-> 1, skipped |-> 0, failed |-> 1]
    /\ proc["a"].exit = 1
    /\ Len(tickets) = 1

\* C14: a process whose environment lacks one of the six required variables,
\* or GH_ISSUE_NUMBER with bulk mode off, has ended with exit code 1 and the
\* error naming a variable it lacks, without an invocation of syncIssue, a
\* listing or any other call; the step that ends it leaves the trackers as
\* they were.
C14_ConfigBeforeNetwork ==
    /\ [](\A p \in Procs :
            proc[p].unset # {}
               => /\ proc[p].pc = "idle"
                  /\ proc[p].exit = 1
                  /\ proc[p].err \in proc[p].unset
                  /\ proc[p].inv = NoInv
                  /\ proc[p].last = NoInv
                  /\ proc[p].visited = <<>>
                  /\ proc[p].page = 0
                  /\ proc[p].out = <<>>)
    /\ [][\A p \in Procs :
             (Steps(p) /\ proc'[p].unset # {}) => UNCHANGED world]_vars

\* A single-issue run without JIRA_API_TOKEN ended at startup; the open
\* unlabeled issues of the repository are as they were.
C14_Witness ==
    /\ proc["a"].err = "JIRA_API_TOKEN"
    /\ proc["a"].unset = {"JIRA_API_TOKEN"}
    /\ proc["a"].exit = 1
    /\ \E n \in Issues : n \in Unsynced /\ TicketsFor(n) = 0

\* The positions of a label list that hold a sync label of the pool.
SyncPositions(labels) ==
    {i \in 1..Len(labels) : \E s \in SyncPool : s.name = labels[i]}

\* C15: getJiraKeyFromLabels returns the key of the first label of the list
\* that is a sync label, the text after `jira:`, and null when the list
\* holds none; names that are close to a sync label without being one, and
\* any other names, change nothing, wherever they stand in the list.
C15_GetJiraKey ==
    ret.fn = "getJiraKeyFromLabels"
       => LET labels == given.issue.labels
              hits == SyncPositions(labels)
          IN IF hits = {} THEN ret.val = Null
             ELSE \E s \in SyncPool :
                     /\ s.name = labels[CHOOSE i \in hits : \A j \in hits : i <= j]
                     /\ ret.val = s.key

\* A list of two sync labels gave the key of the first.
C15_Witness ==
    /\ ret.fn = "getJiraKeyFromLabels"
    /\ given.issue.labels = <<<<"j","i","r","a",":","A","1","B","-","1","0">>, <<"j","i","r","a",":","A","B","-","1">>>>
    /\ ret.val = <<"A","1","B","-","1","0">>

\* The value the table has for the first label whose name is a key of the
\* table, else the default.
FirstKeyed(table, labels, default) ==
    LET hits == {i \in 1..Len(labels) : labels[i] \in DOMAIN table}
    IN IF hits = {} THEN default
       ELSE table[labels[CHOOSE i \in hits : \A j \in hits : i <= j]]

\* C16: derivePriority returns the value of the priority table for the first
\* label whose name is a key of the table and Medium when no name is a key;
\* deriveIssueType does the same with the type table and the configured
\* default issue type.
C16_FirstMatchMapping ==
    /\ ret.fn = "derivePriority"
          => ret.val = FirstKeyed(PRIORITY_MAP, given.issue.labels, "Medium")
    /\ ret.fn = "deriveIssueType"
          => ret.val = FirstKeyed(TYPE_MAP, given.issue.labels, given.typeDefault)

\* The title begins with a bracketed group: a "[" and a "]" after it.
BeginsWithGroup(title) ==
    /\ Len(title) > 0
    /\ title[1] = "["
    /\ \E j \in 2..Len(title) : title[j] = "]"

RECURSIVE WithoutGroups(_)
\* The title without its leading bracketed groups and the white space after
\* each of them.
WithoutGroups(title) ==
    IF BeginsWithGroup(title)
    THEN LET close == CHOOSE j \in 2..Len(title) :
                         /\ title[j] = "]"
                         /\ \A k \in 2..(j-1) : title[k] # "]"
             rest == SubSeq(title, close + 1, Len(title))
             solid == {k \in 1..Len(rest) : rest[k] # " "}
         IN WithoutGroups(IF solid = {} THEN <<>>
                          ELSE SubSeq(rest, CHOOSE k \in solid : \A l \in solid : k <= l,
                                      Len(rest)))
    ELSE title

\* C17: for a title that begins with one or more bracketed groups, the
\* summary is the title with all its leading groups removed (trimmed and cut
\* to the clamp).
C17_PrefixStripped ==
    (ret.fn = "createJiraIssue" /\ ~ret.val.threw
       /\ BeginsWithGroup(given.issue.title))
       => ret.val.summary =
            Substring0(Trim(WithoutGroups(given.issue.title)), SummaryMax)

\* C18, as stated: the summary is never longer than the clamp, and for a
\* title that does not begin with a bracketed group it is the title cut to
\* the clamp.
C18_ClampPassThrough ==
    (ret.fn = "createJiraIssue" /\ ~ret.val.threw)
       => /\ Len(ret.val.summary) <= SummaryMax
          /\ ~BeginsWithGroup(given.issue.title)
               => ret.val.summary = Substring0(given.issue.title, SummaryMax)

\* The sequence s without the white space at its two ends.
Trimmed(s) ==
    IF \A k \in 1..Len(s) : s[k] = " " THEN <<>>
    ELSE LET first == CHOOSE k \in 1..Len(s) :
                         s[k] # " " /\ \A l \in 1..(k-1) : s[l] = " "
             last == CHOOSE k \in 1..Len(s) :
                        s[k] # " " /\ \A l \in (k+1)..Len(s) : s[l] = " "
         IN [i \in 1..(last - first + 1) |-> s[first + i - 1]]

\* C18, amended: the summary is never longer than the clamp, and for a title
\* that does not begin with a bracketed group it is the title without the
\* white space at its ends, cut to the clamp.
C18_ClampTrimmed ==
    (ret.fn = "createJiraIssue" /\ ~ret.val.threw)
       => /\ Len(ret.val.summary) <= SummaryMax
          /\ ~BeginsWithGroup(given.issue.title)
               => /\ Len(ret.val.summary)
                       = Min(SummaryMax, Len(Trimmed(given.issue.title)))
                  /\ \A i \in 1..Len(ret.val.summary) :
                        ret.val.summary[i] = Trimmed(given.issue.title)[i]

\* A title longer than the clamp, with a space in front and no bracketed
\* group, gave a summary of the clamp's length.
C18_Witness ==
    /\ ret.fn = "createJiraIssue"
    /\ ~ret.val.threw
    /\ Len(given.issue.title) > SummaryMax + 1
    /\ given.issue.title[1] = " "
    /\ \A i \in 2..Len(given.issue.title) : given.issue.title[i] = "a"
    /\ Len(ret.val.summary) = SummaryMax

\* The fields of the body's table that hold a value, in the fixed order.
Populated(body) ==
    SelectSeq(MetaFields,
              LAMBDA f : body.kind = "string" /\ body.cells[f] = Cell(<<"v">>))

\* C19: the Details table has the header row, then one row for each field
\* that holds a value, in the order File, Line, Branch, Commit, Introduced,
\* Author, with the field's value, then the GitHub Issue row with the issue
\* URL; a field that is absent or blank has no row.
C19_DescriptionRows ==
    (ret.fn = "createJiraIssue" /\ ~ret.val.threw)
       => LET table == ret.val.description[4]
              rows == table.rows
              pop == Populated(given.issue.body)
          IN /\ ret.val.description[3].label = "Details"
             /\ table.type = "table"
             /\ Len(rows) = Len(pop) + 2
             /\ rows[1] = [header |-> TRUE, key |-> "Field", value |-> ValueHeader]
             /\ \A i \in 1..Len(pop) :
                   rows[i + 1] = [header |-> FALSE, key |-> pop[i], value |-> <<"v">>]
             /\ rows[Len(rows)] =
                  [header |-> FALSE, key |-> "GitHub Issue",
                   value |-> given.issue.html_url]

\* Only File and Author hold a value (Line is blank, the others absent): the
\* table has the header, the two field rows and the link row.
C19_Witness ==
    /\ ret.fn = "createJiraIssue"
    /\ given.issue.body.kind = "string"
    /\ given.issue.body.cells =
         [f \in MetaNames |->
             IF f \in {"File", "Author"} THEN Cell(<<"v">>)
             ELSE IF f = "Line" THEN Cell(<<" ">>) ELSE NoCell]
    /\ ~ret.val.threw
    /\ Len(ret.val.description[4].rows) = 4
    /\ ret.val.description[4].rows[3].key = "Author"

\* C20: for an issue whose body is undefined, null, empty or free text
\* without the metadata table, createJiraIssue gets to its create call, with
\* a description that holds the provenance paragraph, the quote of the issue
\* title and the GitHub Issue row.
C20_MetadataNeverBlocks ==
    (ret.fn = "createJiraIssue" /\ given.issue.body.cells = NoTable
       /\ ~given.issue.body.todo.present)
       => /\ ~ret.val.threw
          /\ ret.val.description[1].type = "paragraph"
          /\ ret.val.description[1].label = Provenance
          /\ ret.val.description[2].type = "blockquote"
          /\ ret.val.description[2].text = given.issue.title
          /\ LET rows == ret.val.description[4].rows
             IN rows[Len(rows)].key = "GitHub Issue"


\* The calls op occurs among.
Made(calls, op) == \E i \in 1..Len(calls) : calls[i].op = op

\* C21: with close-after-sync and dry-run off, no step of the process posts
\* a comment or changes the state of an issue, and the invocation whose
\* addLabels call returns ends there as synced with the key of the ticket
\* it created for the issue: its calls hold the Jira create and no
\* createComment or update, and the issue is open and carries the label.
C21_CloseDisabled ==
    [][\A p \in Procs, n \in Issues :
          (~proc[p].close /\ ~proc[p].dry /\ proc[p].cur = n /\ Steps(p))
             => /\ comments' = comments
                /\ \A m \in Issues : issues'[m].state = issues[m].state
                /\ proc'[p].pc \notin {"comment", "update"}
                /\ ~Made(CallsAfter(p), "createComment")
                /\ ~Made(CallsAfter(p), "update")
                /\ (proc[p].pc = "addLabels" /\ ~LastCallThrew(CallsAfter(p)))
                      => /\ Ends(p)
                         /\ proc'[p].last.outcome = "synced"
                         /\ proc'[p].last.key = proc[p].key
                         /\ proc'[p].last.calls[2] = [op |-> "jiraCreate", ok |-> TRUE]
                         /\ \E t \in 1..Len(tickets) :
                               tickets[t] = n /\ JiraKey(t) = proc[p].key
                         /\ issues'[n].state = "open"
                         /\ getJiraKeyFromLabels(issues'[n].labels) = proc[p].key]_vars

\* A run with close-after-sync off synced issue n: four calls on a label
\* the repository had, the issue open with its label and without a comment.
C21_Witness ==
    \E n \in Issues :
       /\ ~proc["a"].close /\ ~proc["a"].dry
       /\ proc["a"].last.issue = n
       /\ proc["a"].last.outcome = "synced"
       /\ ~Made(proc["a"].last.calls, "createComment")
       /\ Made(proc["a"].last.calls, "addLabels")
       /\ issues[n].state = "open"
       /\ SyncLabelCount(n) = 1
       /\ comments[n] = 0
       /\ TicketsFor(n) = 1


\* C22: with bulk runs that are killed at any of their awaits and run again,
\* no issue gets a second Jira ticket, and once the process is gone every
\* issue is untouched (no ticket was created for it) or fully transitioned
\* (it carries the label of its ticket).
C22_KilledRunSafe ==
    /\ \A n \in Issues : TicketsFor(n) <= 1
    /\ proc["a"].pc = "idle" => \A n \in Issues : TicketsFor(n) = 0 \/ Attached(n)


\* The name starts with `jira:`.
StartsWithJira(name) ==
    Len(name) >= Len(JiraPrefix) /\ SubSeq(name, 1, Len(JiraPrefix)) = JiraPrefix

OwnTicketLabels(n) ==
    {JiraLabelName(JiraKey(t)) : t \in {u \in 1..Len(tickets) : tickets[u] = n}}

\* C25: every label of the `jira:` family on an issue names a ticket that
\* was created for that issue, never the dry-run placeholder; and the labels
\* of an issue change only by the addLabels call of an invocation with
\* dry-run off whose Jira create call returned, which attaches the label of
\* the key that call returned for this issue.
C25_LabelsNeverFabricated ==
    /\ [](\A n \in Issues : \A i \in 1..Len(issues[n].labels) :
             StartsWithJira(issues[n].labels[i])
                => /\ issues[n].labels[i] \in OwnTicketLabels(n)
                   /\ issues[n].labels[i] # JiraLabelName(DryKey))
    /\ [][\A n \in Issues :
             issues'[n].labels # issues[n].labels
                => \E p \in Procs :
                      /\ proc[p].pc = "addLabels" /\ proc[p].cur = n
                      /\ ~proc[p].dry
                      /\ proc[p].inv.calls[2] = [op |-> "jiraCreate", ok |-> TRUE]
                      /\ JiraLabelName(proc[p].key) \in OwnTicketLabels(n)
                      /\ issues'[n].labels =
                            Append(issues[n].labels, JiraLabelName(proc[p].key))]_vars

\* Issue n has two tickets (the label step of the first failed) and carries
\* the label of the second, after a dry run also went through the issue.
C25_Witness ==
    \E n \in Issues :
       /\ TicketsFor(n) = 2
       /\ SyncLabelCount(n) = 1
       /\ JiraLabelName(JiraKey(2)) \in {issues[n].labels[i] : i \in 1..Len(issues[n].labels)}
       /\ tickets = <<n, n>>
       /\ proc["a"].dry
       /\ proc["a"].last.issue = n


\* C26: in sequential runs, from issues with at most one sync label each, no
\* issue ever has more than one label matching the sync-label pattern,
\* whatever calls fail; and an invocation attaches a label only to an issue
\* that has none.
C26_AtMostOneSyncLabel ==
    /\ [](\A n \in Issues : SyncLabelCount(n) <= 1)
    /\ [][\A n \in Issues :
             issues'[n].labels # issues[n].labels
                => SyncLabelCount(n) = 0]_vars

\* Issue n got two tickets, one by an invocation whose label step failed,
\* and carries one sync label.
C26_Witness ==
    \E n \in Issues :
       /\ TicketsFor(n) = 2
       /\ SyncLabelCount(n) = 1
       /\ proc["a"].last.issue = n
       /\ proc["a"].last.outcome = "synced"
       /\ ~proc["a"].dry


\* C27: for every key the Jira create call returns, the label applyJiraLabel
\* attaches to an issue without a sync label is the name `jira:<key>`, and
\* getJiraKeyFromLabels on the issue's labels then returns exactly that key.
C27_LabelRoundTrip ==
    ret.fn = "applyJiraLabel"
       => /\ ret.val.labels[Len(ret.val.labels)] = JiraPrefix \o ret.val.jiraKey
          /\ IsSyncLabelName(ret.val.labels[Len(ret.val.labels)])
          /\ ret.val.existingKey = ret.val.jiraKey

\* The key has digits in its project part and a number of three digits, and
\* the issue carried a `jira:` label that is no sync label before.
C27_Witness ==
    /\ ret.fn = "applyJiraLabel"
    /\ ret.val.jiraKey = <<"Z","9","-","2","0","9">>
    /\ Len(ret.val.labels) = 2
    /\ ret.val.labels[1] = <<"j","i","r","a",":","a","b","-","1">>
    /\ ret.val.existingKey = ret.val.jiraKey

\* C28: for every configured project key, the placeholder key of a dry run
\* is no key that Jira returns (it does not have the form of a key), and
\* the label name made of it is not recognised as a sync label.
C28_PlaceholderDistinct ==
    ret.fn = "dryRun"
       => /\ ret.val.jiraKey \notin ReturnedKeys
          /\ ~MatchesKey(ret.val.jiraKey)
          /\ ~IsSyncLabelName(ret.val.name)
          /\ getJiraKeyFromLabels(Append(given.issue.labels, ret.val.name)) = Null

\* The configured key is a project key of Jira, so that the placeholder
\* differs from a key only by its tail.
C28_Witness ==
    /\ ret.fn = "dryRun"
    /\ ret.val.project = <<"A","1">>
    /\ ret.val.jiraKey = <<"A","1","-","D","R","Y">>


\* C29: no step of a dry-run process writes to the output sink.
C29_DryRunNoOutput ==
    [][\A p \in Procs :
          (proc[p].dry /\ proc[p].pc # "idle" /\ Steps(p))
             => proc'[p].out = proc[p].out]_vars

\* The call op was made and returned.
Succeeded(calls, op) == \E i \in 1..Len(calls) : calls[i] = [op |-> op, ok |-> TRUE]

\* C30: a step of a running process that writes to the output sink ends an
\* invocation as synced, after its addLabels call and (with close-after-sync
\* on) its update call returned, and appends the key of a ticket created for
\* the issue; the sink of one process never holds more than one line; and an
\* invocation that ends as skipped or failed leaves the sink as it was.
C30_OutputLine ==
    [][\A p \in Procs :
          (proc[p].pc # "idle" /\ Steps(p))
             => /\ proc'[p].out # proc[p].out
                     => /\ Ends(p)
                        /\ proc'[p].last.outcome = "synced"
                        /\ Succeeded(proc'[p].last.calls, "addLabels")
                        /\ proc[p].close => Succeeded(proc'[p].last.calls, "update")
                        /\ proc'[p].out = Append(proc[p].out, proc'[p].last.key)
                        /\ \E t \in 1..Len(tickets) :
                              /\ tickets[t] = proc'[p].last.issue
                              /\ JiraKey(t) = proc'[p].last.key
                        /\ Len(proc'[p].out) <= 1
                /\ (Ends(p) /\ proc'[p].last.outcome # "synced")
                     => proc'[p].out = proc[p].out]_vars


\* C23: under repeated bulk runs whose calls eventually succeed, every issue
\* that is open, not a pull request and without a sync label eventually
\* carries the label of a ticket created for it.
C23_NoLostIssues ==
    \A n \in Issues :
       (n \in Unsynced)
          ~> (\E i \in 1..Len(issues[n].labels) :
                 issues[n].labels[i] \in OwnTicketLabels(n))


\* No issue occurs twice among the issues a process passed to syncIssue.
NoRepeat(seq) == \A i, j \in 1..Len(seq) : seq[i] = seq[j] => i = j

\* Every operation occurs once at most among the calls, and a call that
\* threw is the last one, but for the getLabel of ensureLabel, whose catch
\* goes on to createLabel.
SingleAttempt(calls) ==
    /\ \A i, j \in 1..Len(calls) : calls[i].op = calls[j].op => i = j
    /\ \A i \in 1..Len(calls) :
          ~calls[i].ok
             => \/ i = Len(calls)
                \/ /\ calls[i].op = "getLabel"
                   /\ calls[i+1].op = "createLabel"

\* C31: a process passes each issue to syncIssue once at most, and an
\* invocation makes each of its calls once at most (so one Jira create call
\* per issue and process) and ends at the call that threw; a step that
\* creates a ticket for issue n is the first call of that kind of the one
\* invocation the process has on n.
C31_SingleAttempt ==
    /\ [](\A p \in Procs :
             /\ NoRepeat(proc[p].visited)
             /\ SingleAttempt(proc[p].inv.calls)
             /\ SingleAttempt(proc[p].last.calls))
    /\ [][\A p \in Procs :
             (proc[p].pc = "create" /\ Steps(p))
                => /\ ~Made(proc[p].inv.calls, "jiraCreate")
                   /\ proc'[p].pc # "create"
                   /\ proc[p].visited[Len(proc[p].visited)] = proc[p].cur]_vars

\* A bulk run failed at the Jira create call of one issue and went on to
\* the next issue without making the call again.
C31_Witness ==
    /\ proc["a"].mode = "bulk"
    /\ Len(proc["a"].visited) = 2
    /\ proc["a"].last.issue = proc["a"].visited[1]
    /\ proc["a"].last.calls =
          <<[op |-> "get", ok |-> TRUE], [op |-> "jiraCreate", ok |-> FALSE]>>
    /\ proc["a"].inv.issue = proc["a"].visited[2]
    /\ TicketsFor(proc["a"].last.issue) = 0


\* C32: the createLabel call is made only for a label that is absent from
\* the repository: when getLabel returns or throws on a label the repository
\* has, the invocation goes on to addLabels or ends, and makes no createLabel
\* call; when the label is absent it goes on to createLabel.
C32_EnsureLabel ==
    [][\A p \in Procs :
          (proc[p].pc = "getLabel" /\ Steps(p))
             => IF JiraLabelName(proc[p].key) \in repoLabels
                THEN proc'[p].pc # "createLabel"
                ELSE proc'[p].pc = "createLabel"]_vars


\* The outcomes of an invocation of syncIssue that ended.
Terminal == {"synced", "skipped", "failed"}

\* The pcs at which process p waits for an external call on an issue.
IssueCalls == {"get", "create", "getLabel", "createLabel", "addLabels", "comment", "update"}

\* C33: a bulk run waits for one call at a time: it has an invocation in
\* progress, on its current issue, exactly while it waits for a call on an
\* issue; an invocation begins without a call made, after the one before it
\* ended with an outcome; while it goes on each step adds one call to it;
\* and what a step writes to the trackers belongs to the issue of the
\* invocation in progress.
C33_Sequential ==
    /\ [](\A p \in Procs :
             proc[p].mode = "bulk"
                => /\ proc[p].pc \in IssueCalls
                      <=> proc[p].inv.outcome = "running"
                   /\ proc[p].inv.outcome = "running"
                      => proc[p].inv.issue = proc[p].cur
                   /\ proc[p].inv.outcome # "running" => proc[p].inv = NoInv)
    /\ [][\A p \in Procs :
             (proc[p].mode = "bulk" /\ Steps(p) /\ proc'[p].mode = "bulk")
                => /\ (proc'[p].inv.outcome = "running"
                         /\ proc'[p].visited # proc[p].visited)
                      => /\ proc'[p].inv.calls = <<>>
                         /\ proc'[p].pc = "get"
                         /\ Len(proc[p].visited) > 0
                              => /\ proc'[p].last.issue =
                                       proc[p].visited[Len(proc[p].visited)]
                                 /\ proc'[p].last.outcome \in Terminal
                   /\ (proc[p].inv.outcome = "running" /\ ~Ends(p))
                      => /\ proc'[p].inv.issue = proc[p].inv.issue
                         /\ Len(proc'[p].inv.calls) = Len(proc[p].inv.calls) + 1
                   /\ \A n \in Issues :
                         (issues'[n] # issues[n] \/ comments'[n] # comments[n]
                            \/ TicketsFor(n)' # TicketsFor(n))
                            => /\ proc[p].inv.outcome = "running"
                               /\ proc[p].inv.issue = n]_vars

\* A bulk run is on its second issue after the first failed at its label
\* step, with the ticket of the first in place.
C33_Witness ==
    /\ proc["a"].mode = "bulk"
    /\ Len(proc["a"].visited) = 2
    /\ proc["a"].last.issue = proc["a"].visited[1]
    /\ proc["a"].last.outcome = "failed"
    /\ proc["a"].last.failedAt = "addLabels"
    /\ proc["a"].inv.issue = proc["a"].visited[2]
    /\ proc["a"].pc = "create"
    /\ TicketsFor(proc["a"].last.issue) = 1


Total(summary) == summary.synced + summary.skipped + summary.failed

\* The summary with one more count of the outcome.
Counted(summary, outcome) ==
    [summary EXCEPT !.synced = @ + (IF outcome = "synced" THEN 1 ELSE 0),
                    !.skipped = @ + (IF outcome = "skipped" THEN 1 ELSE 0),
                    !.failed = @ + (IF outcome = "failed" THEN 1 ELSE 0)]

\* C34: while a bulk run goes on, synced + skipped + failed is the number of
\* invocations of syncIssue that ended, one per listing entry that is not a
\* pull request; the step that ends an invocation adds one to the counter of
\* its outcome (skipped for already_synced and already_closed, failed for a
\* throw), also when the run returns in that step, and no other step changes
\* the counters.
C34_BulkCounts ==
    /\ [](\A p \in Procs :
             (proc[p].mode = "bulk" /\ proc[p].pc # "idle")
                => /\ Total(proc[p].summary) = Len(proc[p].visited) - Running(p)
                   /\ \A i \in 1..Len(proc[p].visited) : ~issues[proc[p].visited[i]].pr)
    /\ [][\A p \in Procs :
             (proc[p].mode = "bulk" /\ proc[p].pc # "idle" /\ Steps(p))
                => IF Ends(p)
                   THEN /\ proc'[p].last.outcome \in Terminal
                        /\ proc'[p].summary =
                              Counted(proc[p].summary, proc'[p].last.outcome)
                        /\ proc'[p].last.outcome = "skipped"
                              => proc'[p].last.reason \in {"already_synced", "already_closed"}
                        /\ proc'[p].last.outcome = "failed"
                              <=> proc'[p].last.failedAt # ""
                   ELSE proc'[p].summary = proc[p].summary]_vars

\* A bulk run returned with one issue synced and one skipped.
C34_Witness ==
    /\ proc["a"].pc = "idle"
    /\ proc["a"].summary = [synced |-> 1, skipped |-> 1, failed |-> 0]


\* Every entry of the page is a pull request.
OnlyPullRequests(items) == \A i \in 1..Len(items) : issues[items[i]].pr

C36_CourtesyDelay ==
    [][\A p \in Procs :
          (proc[p].mode = "bulk" /\ proc[p].pc # "idle" /\ Steps(p))
             => /\ proc'[p].pc = "delay"
                   <=> (Ends(p) /\ proc'[p].last.outcome = "synced")
                /\ proc[p].pc = "delay"
                   => /\ UNCHANGED world
                      /\ proc[p].inv = NoInv
                      /\ proc'[p].last = proc[p].last
                      /\ proc'[p].inv.calls = <<>>
                      /\ proc'[p].pc \in {"get", "list", "idle"}]_vars

\* After the delay that followed a synced issue, a bulk run (dry-run off)
\* is at the fetch of the next issue.
C36_Witness ==
    /\ proc["a"].mode = "bulk"
    /\ ~proc["a"].dry
    /\ proc["a"].pc = "get"
    /\ proc["a"].inv.calls = <<>>
    /\ proc["a"].last.outcome = "synced"
    /\ Len(proc["a"].visited) = 2
    /\ TicketsFor(proc["a"].last.issue) = 1


\* What a process that has run nothing before, in single-issue mode with the
\* configuration of process p, does with issue n once its fetch returned.
FirstRun(p, n) ==
    AfterFetch(Log([Begin([Fresh EXCEPT !.mode = "single",
                                        !.dry = proc[p].dry,
                                        !.close = proc[p].close,
                                        !.sink = proc[p].sink], n)
                      EXCEPT !.inv.fetched = TRUE], "get", TRUE),
               issues[n])

=============================================================================
